---- MODULE Spec2Model ----
(***************************************************************************)
(* The content-collection build pipeline of the blog: the `blog new-post`  *)
(* helper of flake.nix, the blog schema of src/content/config.ts and the   *)
(* three page templates (index.astro, blog/index.astro,                    *)
(* blog/[...slug].astro) that query the collection and emit routes.        *)
(*                                                                         *)
(* Strings are sequences of one-character strings, so that the text        *)
(* transformations (tr, sed, slug derivation, path templates) are computed *)
(* character by character.                                                 *)
(***************************************************************************)
EXTENDS Integers, Sequences, FiniteSets, TLC

VARIABLES
    files,      \* src/content/blog: file name without ".md" -> file content
    today,      \* the day `date +%Y-%m-%d` reports
    pc,         \* position of the author / of the build
    store,      \* entries of the collection, in discovery order
    paths,      \* detail routes getStaticPaths returned, not yet rendered
    written,    \* routes written by the running (or last) build
    error,      \* the error that ended the build, or NoError
    prevOut,    \* routes written by the previous build of the same input
    exitStatus, \* exit status of the last `blog` command
    arg,        \* "$2" of a `blog new-post` run under test
    slugOut,    \* the slug that run computed
    raw,        \* a raw frontmatter mapping handed to the schema
    parsed,     \* what the schema returned for it
    postsArray, \* the array a page under test got from getCollection
    view,       \* the view that page computed from it
    config      \* astro.config.mjs and the BaseLayout.astro of the site

vars == <<files, today, pc, store, paths, written, error,
          prevOut, exitStatus, arg, slugOut, raw, parsed, postsArray, view, config>>

pipelineVars == <<files, today, pc, store, paths, written, error,
                  prevOut, exitStatus>>
slugVars == <<arg, slugOut>>
schemaVars == <<raw, parsed>>
queryVars == <<postsArray, view>>
configVars == <<config>>

-----------------------------------------------------------------------------
(* Bounds *)

MaxLen == 3      \* longest title given to the slug pipeline under test
MaxFiles == 3    \* most files in src/content/blog
MaxDay == 2      \* days the calendar can reach
MaxPosts == 4    \* most entries of a collection queried under test

-----------------------------------------------------------------------------
(* Characters and strings *)

NL == "\n"
Lower == {"e"}
Upper == {"E"}
Digit == {"1"}
Chars == Lower \cup Upper \cup Digit \cup {"-", " ", NL}

RECURSIVE StringsUpTo(_)
StringsUpTo(n) ==
    IF n = 0 THEN {<<>>}
    ELSE LET shorter == StringsUpTo(n - 1)
         IN  shorter \cup {Append(s, c) : s \in shorter, c \in Chars}

\* the subsequence of s at the indices in K
Keep(s, K) ==
    LET F[i \in 0..Len(s)] ==
            IF i = 0 THEN <<>>
            ELSE IF i \in K THEN Append(F[i - 1], s[i]) ELSE F[i - 1]
    IN  F[Len(s)]

-----------------------------------------------------------------------------
(* flake.nix, `blog new-post`: the slug                                    *)
(*   slug=$(echo "$2" | tr '[:upper:]' '[:lower:]' | sed 's/[^a-z0-9]/-/g' *)
(*          | sed 's/--*/-/g' | sed 's/^-\|-$//g')                         *)

\* bash's builtin echo takes a first argument made of '-' and one or more of
\* n, e, E as options and prints nothing of it
IsEchoOption(s) ==
    /\ Len(s) >= 2
    /\ s[1] = "-"
    /\ \A i \in 2..Len(s) : s[i] \in {"n", "e", "E"}

Echo(s) == IF IsEchoOption(s) THEN <<>> ELSE s

ToLower(c) == IF c \in Upper THEN "e" ELSE c

Tr(s) == [i \in DOMAIN s |-> ToLower(s[i])]

\* sed works line by line: the newline is never part of the pattern space
SedReplace(s) ==
    [i \in DOMAIN s |->
        IF s[i] \in Lower \cup Digit \cup {NL} THEN s[i] ELSE "-"]

SedCollapse(s) ==
    Keep(s, {i \in DOMAIN s : ~(s[i] = "-" /\ i > 1 /\ s[i - 1] = "-")})

SedTrim(s) ==
    Keep(s, {i \in DOMAIN s :
                ~(/\ s[i] = "-"
                  /\ \/ i = 1
                     \/ s[i - 1] = NL
                     \/ i = Len(s)
                     \/ s[i + 1] = NL)})

\* $( ... ) drops the trailing newlines of the output
RECURSIVE CommandSubst(_)
CommandSubst(s) ==
    IF s # <<>> /\ s[Len(s)] = NL THEN CommandSubst(SubSeq(s, 1, Len(s) - 1))
    ELSE s

NewPostSlugTrimFirst(t) ==
    CommandSubst(SedCollapse(SedTrim(SedReplace(Tr(Echo(t))))))

NewPostSlug(t) == CommandSubst(SedTrim(SedCollapse(SedReplace(Tr(Echo(t))))))

------------------------------------------------------------------------

NotRun == <<"?">>

-----
(* src/content/config.ts: the blog schema                                  *)

\* a frontmatter value: its JavaScript type after YAML parsing, with the
\* characters of a string (or the tags of an array) in s and the day of a
\* date (or the number of non-string members of an array) in n
Undef == [t |-> "undefined", s |-> <<>>, n |-> 0]
Str(s) == [t |-> "string", s |-> s, n |-> 0]
Date(d) == [t |-> "date", s |-> <<>>, n |-> d]
Num(k) == [t |-> "number", s |-> <<>>, n |-> k]
Arr(tags) == [t |-> "array", s |-> tags, n |-> 0]
BadArr(tags, k) == [t |-> "array", s |-> tags, n |-> k]

Fields == {"title", "description", "pubDate", "updatedDate", "heroImage", "tags"}

SchemaPubDateOptional ==
    [title       |-> [type |-> "string", optional |-> FALSE],
     description |-> [type |-> "string", optional |-> FALSE],
     pubDate     |-> [type |-> "date",   optional |-> TRUE],
     updatedDate |-> [type |-> "date",   optional |-> TRUE],
     heroImage   |-> [type |-> "string", optional |-> TRUE],
     tags        |-> [type |-> "array",  optional |-> TRUE]]

\* z.object({ title: z.string(), description: z.string(), pubDate: z.date(),
\*   updatedDate: z.date().optional(), heroImage: z.string().optional(),
\*   tags: z.array(z.string()).optional() })
Schema ==
    [title       |-> [type |-> "string", optional |-> FALSE],
     description |-> [type |-> "string", optional |-> FALSE],
     pubDate     |-> [type |-> "date",   optional |-> FALSE],
     updatedDate |-> [type |-> "date",   optional |-> TRUE],
     heroImage   |-> [type |-> "string", optional |-> TRUE],
     tags        |-> [type |-> "array",  optional |-> TRUE]]

FieldOk(v, rule) ==
    \/ v.t = "undefined" /\ rule.optional
    \/ v.t = rule.type /\ (rule.type = "array" => v.n = 0)

\* the fields the schema reports an issue for
Issues(fm) == {f \in Fields : ~FieldOk(fm[f], Schema[f])}

SchemaParseTagsDefault(fm) ==
    IF Issues(fm) = {}
    THEN [ok |-> TRUE,
          data |-> [fm EXCEPT !.tags = IF fm.tags = Undef THEN Arr(<<>>) ELSE fm.tags],
          issues |-> {}]
    ELSE [ok |-> FALSE, data |-> [f \in Fields |-> Undef], issues |-> Issues(fm)]

\* the schema applied to a raw frontmatter mapping: the typed data, or the
\* issues, each under the name of its field
SchemaParse(fm) ==
    IF Issues(fm) = {}
    THEN [ok |-> TRUE, data |-> fm, issues |-> {}]
    ELSE [ok |-> FALSE, data |-> [f \in Fields |-> Undef], issues |-> Issues(fm)]

------------------------------------------------------------------------

NotParsed == [ok |-> FALSE, data |-> [f \in Fields |-> Undef], issues |-> {"?"}]

-----------------------------------------------------------------------------
(* The files of src/content/blog *)

NoFiles == [n \in {} |-> 0]

\* YAML's reading of the line  key: '<text>'  that the heredoc writes: inside
\* single quotes '' stands for one quote and a lone quote ends the scalar;
\* text after the end of the scalar, or no end on the line, is a syntax error
YamlSingleQuoted(text) ==
    LET q == Append(text, "'")
        F[i \in 0..Len(q)] ==
            IF i = 0 THEN [st |-> "in", s |-> <<>>]
            ELSE LET p == F[i - 1]
                 IN  IF p.st = "in"
                     THEN IF q[i] = "'" THEN [st |-> "quote", s |-> p.s]
                          ELSE [st |-> "in", s |-> Append(p.s, q[i])]
                     ELSE IF p.st = "quote"
                     THEN IF q[i] = "'" THEN [st |-> "in", s |-> Append(p.s, "'")]
                          ELSE [st |-> "error", s |-> p.s]
                     ELSE p
    IN  [ok |-> F[Len(q)].st = "quote", s |-> F[Len(q)].s]

\* flake.nix 30-40: the file `blog new-post` writes for the one-line title t
\* on day d, as the content loader reads it; "$2" goes into the quotes as
\* it is
NewPostFile(t, d) ==
    LET title == YamlSingleQuoted(t)
        description == YamlSingleQuoted(<<"Description for ">> \o t)
    IN  IF title.ok /\ description.ok
        THEN [parses |-> TRUE,
              fm |-> [title       |-> Str(title.s),
                      description |-> Str(description.s),
                      pubDate     |-> Date(d),
                      updatedDate |-> Undef,
                      heroImage   |-> Undef,
                      tags        |-> Undef],
              body |-> <<"# ">> \o t \o <<NL, NL, "Your content here...">>]
        ELSE [parses |-> FALSE,
              fm |-> [f \in Fields |-> Undef],
              body |-> <<>>]

\* cat > "$file": creates the file or replaces its content
WriteFile(fs, name, content) ==
    [n \in DOMAIN fs \cup {name} |-> IF n = name THEN content ELSE fs[n]]

\* titles the author passes to `blog new-post`
PostTitles == {<<>>, <<"-">>, <<"E">>, <<"e">>, <<"e", " ", "1">>}

\* files the author writes by hand: names and contents
ManualNames == {<<"E">>, <<"-", "e">>}

ManualBody == <<"Welcome to My Blog!">>

ManualFiles ==
    {[parses |-> TRUE,
      fm |-> [title |-> Str(<<"e">>), description |-> Str(<<>>),
              pubDate |-> Date(1), updatedDate |-> Date(2),
              heroImage |-> Undef, tags |-> Arr(<<"astro">>)],
      body |-> ManualBody],
     [parses |-> TRUE,
      fm |-> [title |-> Str(<<"E">>), description |-> Str(<<"e">>),
              pubDate |-> Date(2), updatedDate |-> Undef,
              heroImage |-> Undef, tags |-> Arr(<<>>)],
      body |-> ManualBody],
     [parses |-> TRUE,
      fm |-> [title |-> Str(<<"e">>), description |-> Str(<<"e">>),
              pubDate |-> Undef, updatedDate |-> Undef,
              heroImage |-> Undef, tags |-> Undef],
      body |-> ManualBody],
     [parses |-> FALSE,
      fm |-> [f \in Fields |-> Undef],
      body |-> <<>>]}

-----------------------------------------------------------------------------
(* astro:content: loading the collection                                   *)

\* the slug the framework gives an entry: the file name lowercased, without
\* the characters that are neither letters, digits, '-' nor ' ', and with
\* every space turned into '-'
GithubSlugNoHyphen(name) ==
    LET kept == Keep(name, {i \in DOMAIN name :
                        name[i] \in Lower \cup Upper \cup Digit \cup {" "}})
    IN  [i \in DOMAIN kept |-> IF kept[i] = " " THEN "-" ELSE ToLower(kept[i])]

GithubSlug(name) ==
    LET kept == Keep(name, {i \in DOMAIN name :
                        name[i] \in Lower \cup Upper \cup Digit \cup {"-", " "}})
    IN  [i \in DOMAIN kept |-> IF kept[i] = " " THEN "-" ELSE ToLower(kept[i])]

\* the files the loader finds: **/*.md does not match the dotfile ".md"
Discovered(fs) == {n \in DOMAIN fs : n # <<>>}

Perms(S) ==
    {p \in [1..Cardinality(S) -> S] :
        \A i, j \in 1..Cardinality(S) : p[i] = p[j] => i = j}

NoError == [kind |-> "none", files |-> {}, fields |-> {}]

Entry(fs, name) ==
    [id   |-> name,
     slug |-> GithubSlug(name),
     data |-> SchemaParse(fs[name].fm).data,
     body |-> fs[name].body]

\* the first file, in discovery order, that cannot become an entry
FirstBad(fs, disc) ==
    LET bad == {i \in DOMAIN disc :
                   ~fs[disc[i]].parses \/ ~SchemaParse(fs[disc[i]].fm).ok}
    IN  IF bad = {} THEN 0 ELSE CHOOSE i \in bad : \A j \in bad : i <= j

Clashes(disc) ==
    {<<i, j>> \in (DOMAIN disc) \X (DOMAIN disc) :
        i < j /\ GithubSlug(disc[i]) = GithubSlug(disc[j])}

\* the entries in discovery order
StoreOf(fs, disc) == [k \in DOMAIN disc |-> Entry(fs, disc[k])]

LoadSkippingInvalid(fs, disc) ==
    LET good == Keep(disc, {i \in DOMAIN disc :
                        fs[disc[i]].parses /\ SchemaParse(fs[disc[i]].fm).ok})
    IN  [ok |-> TRUE, error |-> NoError, entries |-> StoreOf(fs, good)]

LoadNoClashCheck(fs, disc) ==
    LET b == FirstBad(fs, disc)
    IN  IF b # 0 /\ ~fs[disc[b]].parses
        THEN [ok |-> FALSE, entries |-> <<>>,
              error |-> [kind |-> "ParseError", files |-> {disc[b]}, fields |-> {}]]
        ELSE IF b # 0
        THEN [ok |-> FALSE, entries |-> <<>>,
              error |-> [kind |-> "ValidationError", files |-> {disc[b]},
                         fields |-> SchemaParse(fs[disc[b]].fm).issues]]
        ELSE [ok |-> TRUE, error |-> NoError, entries |-> StoreOf(fs, disc)]

\* parse and validate every discovered file and give it its slug; the first
\* failure ends the load, and so do two files with one slug
Load(fs, disc) ==
    LET b == FirstBad(fs, disc)
    IN  IF b # 0 /\ ~fs[disc[b]].parses
        THEN [ok |-> FALSE, entries |-> <<>>,
              error |-> [kind |-> "ParseError", files |-> {disc[b]}, fields |-> {}]]
        ELSE IF b # 0
        THEN [ok |-> FALSE, entries |-> <<>>,
              error |-> [kind |-> "ValidationError", files |-> {disc[b]},
                         fields |-> SchemaParse(fs[disc[b]].fm).issues]]
        ELSE IF Clashes(disc) # {}
        THEN LET c == CHOOSE c \in Clashes(disc) :
                        \A d \in Clashes(disc) :
                            c[2] < d[2] \/ (c[2] = d[2] /\ c[1] <= d[1])
             IN  [ok |-> FALSE, entries |-> <<>>,
                  error |-> [kind |-> "DuplicateSlug",
                             files |-> {disc[c[1]], disc[c[2]]}, fields |-> {}]]
        ELSE [ok |-> TRUE, error |-> NoError, entries |-> StoreOf(fs, disc)]

-----------------------------------------------------------------------------
(* The page templates                                                      *)

\* (a, b) => b.data.pubDate.valueOf() - a.data.pubDate.valueOf()
ComparePubDateAscending(a, b) == a.data.pubDate.n - b.data.pubDate.n

ComparePubDate(a, b) == b.data.pubDate.n - a.data.pubDate.n

\* Array.prototype.sort: stable, ordered by the sign of the comparator.
\* The elements the sort puts before posts[i]: those the comparator orders
\* before it, and of those it calls equal the ones that stood before it.
Before(posts, i) ==
    {j \in DOMAIN posts :
        \/ ComparePubDate(posts[j], posts[i]) < 0
        \/ ComparePubDate(posts[j], posts[i]) = 0 /\ j < i}

SortPosts(posts) ==
    [k \in DOMAIN posts |->
        posts[CHOOSE i \in DOMAIN posts : Cardinality(Before(posts, i)) = k - 1]]

\* `/blog/${post.slug}/`
BlogPath(slug) == <<"/", "blog", "/">> \o slug \o <<"/">>

SlugOfPath(path) == SubSeq(path, 4, Len(path) - 1)

NoData == [f \in Fields |-> Undef]

\* astro.config.mjs (base '/') with the BaseLayout.astro of part_000
\* (description || "Blog")
RepoConfig == [base |-> <<"/">>, baseLayout |-> "or"]

\* base '/' or '/blog'; BaseLayout.astro with  description || "Blog"  or
\* with  description = "My awesome blog powered by Astro"  as a default
Configs ==
    [base : {<<"/">>, <<"/", "blog">>}, baseLayout : {"or", "default"}]

\* the URL path a route is served at: the base without its trailing slash,
\* then the path of the route
ServedAt(base, path) ==
    (IF base[Len(base)] = "/" THEN SubSeq(base, 1, Len(base) - 1) ELSE base)
        \o path

\* BaseLayout.astro: one document, one <slot />, <title> and the
\* description meta tag
BaseLayout(title, description) ==
    [documents   |-> 1,
     slots       |-> 1,
     title       |-> title,
     description |->
        IF config.baseLayout = "or"
        THEN IF description.t = "undefined" \/ description.s = <<>>
             THEN <<"Blog">> ELSE description.s
        ELSE IF description.t = "undefined"
             THEN <<"My awesome blog powered by Astro">> ELSE description.s]

Route(path, kind, emptyState, items, id, data, body, layout, shell) ==
    [path |-> path, url |-> ServedAt(config.base, path), kind |-> kind,
     emptyState |-> emptyState, items |-> items,
     id |-> id, data |-> data, body |-> body, layout |-> layout,
     shell |-> shell]

\* a page that is not wrapped in BlogPost.astro
NoLayout ==
    [time |-> 0, showUpdated |-> FALSE, updated |-> 0,
     showTags |-> FALSE, tags |-> <<>>]

\* index.astro: link, title, description and date of every post
HomeItem(post) ==
    [href |-> BlogPath(post.slug), title |-> post.data.title.s,
     description |-> post.data.description.s, pubDate |-> post.data.pubDate.n,
     showTags |-> FALSE, tags |-> <<>>]

HomePage(posts) ==
    LET sorted == SortPosts(posts)
    IN  Route(<<"/">>, "home", FALSE,
              [i \in DOMAIN sorted |-> HomeItem(sorted[i])], <<>>, NoData, <<>>,
              NoLayout, BaseLayout(<<"Blog">>, Undef))

\* blog/index.astro: the same, with the tags when post.data.tags is truthy
ListingItem(post) ==
    [href |-> BlogPath(post.slug), title |-> post.data.title.s,
     description |-> post.data.description.s, pubDate |-> post.data.pubDate.n,
     showTags |-> post.data.tags.t # "undefined", tags |-> post.data.tags.s]

ListingPageNoEmptyState(posts) ==
    LET sortedPosts == SortPosts(posts)
    IN  Route(<<"/", "blog", "/">>, "listing", FALSE,
              [i \in DOMAIN sortedPosts |-> ListingItem(sortedPosts[i])],
              <<>>, NoData, <<>>, NoLayout,
              BaseLayout(<<"All Blog Posts">>, Undef))

\* sortedPosts.length > 0 ? the list : <p>No posts published yet.</p>
ListingPage(posts) ==
    LET sortedPosts == SortPosts(posts)
    IN  Route(<<"/", "blog", "/">>, "listing", ~(Len(sortedPosts) > 0),
              [i \in DOMAIN sortedPosts |-> ListingItem(sortedPosts[i])],
              <<>>, NoData, <<>>, NoLayout,
              BaseLayout(<<"All Blog Posts">>, Undef))

GetStaticPathsSkipLast(posts) ==
    [i \in 1..(Len(posts) - 1) |->
        [params |-> [slug |-> posts[i].slug], props |-> posts[i]]]

GetStaticPathsFirstProps(posts) ==
    [i \in DOMAIN posts |->
        [params |-> [slug |-> posts[i].slug], props |-> posts[1]]]

\* posts.map((post) => ({ params: { slug: post.slug }, props: post }))
GetStaticPaths(posts) ==
    [i \in DOMAIN posts |->
        [params |-> [slug |-> posts[i].slug], props |-> posts[i]]]

BlogPostTagsWhenDefined(props) ==
    [time        |-> props.pubDate.n,
     showUpdated |-> props.updatedDate.t # "undefined",
     updated     |-> props.updatedDate.n,
     showTags    |-> props.tags.t # "undefined",
     tags        |-> props.tags.s]

\* BlogPost.astro: <time> of pubDate, {updatedDate && ...},
\* {tags && tags.length > 0 && ...}
BlogPost(props) ==
    [time        |-> props.pubDate.n,
     showUpdated |-> props.updatedDate.t # "undefined",
     updated     |-> props.updatedDate.n,
     showTags    |-> props.tags.t # "undefined" /\ Len(props.tags.s) > 0,
     tags        |-> IF props.tags.t # "undefined" /\ Len(props.tags.s) > 0
                     THEN props.tags.s ELSE <<>>]

\* blog/[...slug].astro: the page of one route, BlogPost wrapping <Content />
DetailPage(route) ==
    Route(BlogPath(route.params.slug), "detail", FALSE, <<>>,
          route.props.id, route.props.data, route.props.body,
          BlogPost(route.props.data),
          BaseLayout(route.props.data.title.s, route.props.data.description))

-----------------------------------------------------------------------------
(* The author and the build                                                *)

NoPrev == [valid |-> FALSE, out |-> {}]

NoView == [kind |-> "none", items |-> <<>>]

PipelineIdle ==
    /\ files = NoFiles /\ today = 1 /\ pc = "edit"
    /\ store = <<>> /\ paths = <<>> /\ written = {} /\ error = NoError
    /\ prevOut = NoPrev /\ exitStatus = 0
SlugIdle == arg = <<>> /\ slugOut = NotRun
SchemaIdle == raw = NoData /\ parsed = NotParsed
QueryIdle == postsArray = <<>> /\ view = NoView
ConfigIdle == config = RepoConfig

Init ==
    /\ files = NoFiles /\ today = 1
    /\ pc = "edit" /\ store = <<>> /\ paths = <<>> /\ written = {}
    /\ error = NoError /\ prevOut = NoPrev /\ exitStatus = 0
    /\ SlugIdle /\ SchemaIdle /\ QueryIdle /\ ConfigIdle

Idle == pc \in {"edit", "done", "failed"}

\* flake.nix 22-25: no title, usage message, exit 1
NewPostUsage ==
    /\ Idle
    /\ \E t \in PostTitles : t = <<>>
    /\ exitStatus' = 1
    /\ UNCHANGED <<files, today, pc, store, paths, written, error,
                   prevOut, slugVars, schemaVars, queryVars, configVars>>

\* flake.nix 26-41: slug, date, file
NewPost(t) ==
    /\ Idle
    /\ t # <<>>
    /\ LET slug == NewPostSlug(t)
       IN  /\ slug \in DOMAIN files \/ Cardinality(DOMAIN files) < MaxFiles
           /\ files' = WriteFile(files, slug, NewPostFile(t, today))
    /\ exitStatus' = 0
    /\ pc' = "edit"
    /\ prevOut' = NoPrev
    /\ UNCHANGED <<today, store, paths, written, error,
                   slugVars, schemaVars, queryVars, configVars>>

\* the author adds a Markdown file by hand
CreateFile(name, content) ==
    /\ Idle
    /\ name \notin DOMAIN files
    /\ Cardinality(DOMAIN files) < MaxFiles
    /\ files' = WriteFile(files, name, content)
    /\ pc' = "edit"
    /\ prevOut' = NoPrev
    /\ UNCHANGED <<today, store, paths, written, error, exitStatus,
                   slugVars, schemaVars, queryVars, configVars>>

\* a day passes
Tick ==
    /\ Idle
    /\ today < MaxDay
    /\ today' = today + 1
    /\ UNCHANGED <<files, pc, store, paths, written, error, prevOut,
                   exitStatus, slugVars, schemaVars, queryVars, configVars>>

\* flake.nix 46-48: `blog build`; the build starts from an empty output
StartBuild ==
    /\ Idle
    /\ pc' = "load"
    /\ store' = <<>> /\ paths' = <<>> /\ written' = {} /\ error' = NoError
    /\ prevOut' = IF pc = "done" THEN [valid |-> TRUE, out |-> written] ELSE NoPrev
    /\ UNCHANGED <<files, today, exitStatus, slugVars, schemaVars, queryVars, configVars>>

LoadOk ==
    /\ pc = "load"
    /\ \E disc \in Perms(Discovered(files)) :
          LET r == Load(files, disc)
          IN  /\ r.ok
              /\ store' = r.entries
    /\ pc' = "home"
    /\ UNCHANGED <<files, today, paths, written, error, prevOut,
                   exitStatus, slugVars, schemaVars, queryVars, configVars>>

LoadFailUnreported ==
    /\ pc = "load"
    /\ \E disc \in Perms(Discovered(files)) :
          LET r == Load(files, disc)
          IN  /\ ~r.ok
              /\ error' = r.error
    /\ pc' = "failed"
    /\ exitStatus' = 0
    /\ UNCHANGED <<files, today, store, paths, written, prevOut,
                   slugVars, schemaVars, queryVars, configVars>>

\* the loader throws: astro build stops, npm run build exits non-zero and
\* that is the exit status of `blog build`
LoadFail ==
    /\ pc = "load"
    /\ \E disc \in Perms(Discovered(files)) :
          LET r == Load(files, disc)
          IN  /\ ~r.ok
              /\ error' = r.error
    /\ pc' = "failed"
    /\ exitStatus' = 1
    /\ UNCHANGED <<files, today, store, paths, written, prevOut,
                   slugVars, schemaVars, queryVars, configVars>>

\* getCollection('blog'): a fresh array of the entries
GetCollection == store

RenderHome ==
    /\ pc = "home"
    /\ written' = written \cup {HomePage(GetCollection)}
    /\ pc' = "listing"
    /\ UNCHANGED <<files, today, store, paths, error, prevOut,
                   exitStatus, slugVars, schemaVars, queryVars, configVars>>

RenderListing ==
    /\ pc = "listing"
    /\ written' = written \cup {ListingPage(GetCollection)}
    /\ pc' = "paths"
    /\ UNCHANGED <<files, today, store, paths, error, prevOut,
                   exitStatus, slugVars, schemaVars, queryVars, configVars>>

CallGetStaticPaths ==
    /\ pc = "paths"
    /\ paths' = GetStaticPaths(GetCollection)
    /\ pc' = "detail"
    /\ UNCHANGED <<files, today, store, written, error, prevOut,
                   exitStatus, slugVars, schemaVars, queryVars, configVars>>

RenderDetailNoAdvance ==
    /\ pc = "detail"
    /\ paths # <<>>
    /\ written' = written \cup {DetailPage(Head(paths))}
    /\ paths' = paths
    /\ UNCHANGED <<files, today, pc, store, error, prevOut,
                   exitStatus, slugVars, schemaVars, queryVars, configVars>>

\* the next route of getStaticPaths is rendered and written
RenderDetail ==
    /\ pc = "detail"
    /\ paths # <<>>
    /\ written' = written \cup {DetailPage(Head(paths))}
    /\ paths' = Tail(paths)
    /\ UNCHANGED <<files, today, pc, store, error, prevOut,
                   exitStatus, slugVars, schemaVars, queryVars, configVars>>

FinishBuild ==
    /\ pc = "detail"
    /\ paths = <<>>
    /\ pc' = "done"
    /\ exitStatus' = 0
    /\ UNCHANGED <<files, today, store, paths, written, error,
                   prevOut, slugVars, schemaVars, queryVars, configVars>>

Next ==
    \/ NewPostUsage
    \/ \E t \in PostTitles : NewPost(t)
    \/ \E name \in ManualNames, content \in ManualFiles : CreateFile(name, content)
    \/ Tick
    \/ StartBuild
    \/ LoadOk
    \/ LoadFail
    \/ RenderHome
    \/ RenderListing
    \/ CallGetStaticPaths
    \/ RenderDetail
    \/ FinishBuild

Spec == Init /\ [][Next]_vars

\* a step of the running `npm run build` process
BuildStep ==
    \/ LoadOk
    \/ LoadFail
    \/ RenderHome
    \/ RenderListing
    \/ CallGetStaticPaths
    \/ RenderDetail
    \/ FinishBuild

\* the build process, once started, keeps running until it exits
FairSpec == Init /\ [][Next]_vars /\ WF_vars(BuildStep)

-----
(* The slug pipeline under test: one `blog new-post` run per title *)

InitSlug ==
    /\ arg \in StringsUpTo(MaxLen)
    /\ slugOut = NotRun
    /\ PipelineIdle /\ SchemaIdle /\ QueryIdle /\ ConfigIdle

\* flake.nix 22-26: usage error on an empty title, else the slug
ComputeSlug ==
    /\ slugOut = NotRun
    /\ arg # <<>>
    /\ slugOut' = NewPostSlug(arg)
    /\ UNCHANGED <<arg, pipelineVars, schemaVars, queryVars, configVars>>

UsageError ==
    /\ slugOut = NotRun
    /\ arg = <<>>
    /\ slugOut' = <<"!">>
    /\ UNCHANGED <<arg, pipelineVars, schemaVars, queryVars, configVars>>

NextSlug == ComputeSlug \/ UsageError

SpecSlug == InitSlug /\ [][NextSlug]_vars

-----------------------------------------------------------------------------
(* `blog new-post` under test: one run, with any one-line title, in a      *)
(* directory that is empty or holds the post of an earlier run             *)

TitleChars == (Chars \ {NL}) \cup {"'"}

RECURSIVE TitlesUpTo(_)
TitlesUpTo(n) ==
    IF n = 0 THEN {<<>>}
    ELSE LET shorter == TitlesUpTo(n - 1)
         IN  shorter \cup {Append(s, c) : s \in shorter, c \in TitleChars}

EarlierPosts == {NoFiles, WriteFile(NoFiles, <<"e">>, NewPostFile(<<"e">>, 1))}

InitNewPost ==
    /\ arg \in TitlesUpTo(MaxLen)
    /\ slugOut = NotRun
    /\ files \in EarlierPosts
    /\ today \in 1..MaxDay
    /\ pc = "edit" /\ store = <<>> /\ paths = <<>> /\ written = {}
    /\ error = NoError /\ prevOut = NoPrev /\ exitStatus = 0
    /\ SchemaIdle /\ QueryIdle /\ ConfigIdle

RunUsageNoExit ==
    /\ slugOut = NotRun
    /\ arg = <<>>
    /\ slugOut' = <<"!">>
    /\ files' = WriteFile(files, NewPostSlug(arg), NewPostFile(arg, today))
    /\ exitStatus' = 0
    /\ UNCHANGED <<arg, today, pc, store, paths, written, error, prevOut,
                   schemaVars, queryVars, configVars>>

\* flake.nix 22-25: [ -z "$2" ], the usage message, exit 1
RunUsage ==
    /\ slugOut = NotRun
    /\ arg = <<>>
    /\ slugOut' = <<"!">>
    /\ exitStatus' = 1
    /\ UNCHANGED <<arg, files, today, pc, store, paths, written, error,
                   prevOut, schemaVars, queryVars, configVars>>

\* flake.nix 26-41: the slug, the date, cat > "$file", "Created new post"
RunNewPost ==
    /\ slugOut = NotRun
    /\ arg # <<>>
    /\ slugOut' = NewPostSlug(arg)
    /\ files' = WriteFile(files, NewPostSlug(arg), NewPostFile(arg, today))
    /\ exitStatus' = 0
    /\ UNCHANGED <<arg, today, pc, store, paths, written, error, prevOut,
                   schemaVars, queryVars, configVars>>

NextNewPost == RunUsage \/ RunNewPost

SpecNewPost == InitNewPost /\ [][NextNewPost]_vars

\* C21: `blog new-post` without a title, or with an empty one, prints the
\* usage message, exits with status 1 and leaves src/content/blog as it is.
C21_UsageError ==
    [][arg = <<>> =>
          /\ slugOut' = <<"!">>
          /\ exitStatus' = 1
          /\ files' = files]_vars

C21_Witness ==
    /\ arg = <<>>
    /\ slugOut = <<"!">>
    /\ exitStatus = 1
    /\ files # NoFiles

\* C23: for every non-empty title the slug `blog new-post` computes is not
\* empty: the file it writes is never src/content/blog/.md.
C23_SlugNeverEmpty ==
    (slugOut # NotRun /\ arg # <<>>) =>
        slugOut # <<>> /\ <<>> \notin DOMAIN files

\* C25: for every non-empty title, with or without single quotes, the file
\* `blog new-post` writes has a frontmatter that parses, a title equal to
\* the title given, and passes the blog schema.
C25_NewPostFileValid ==
    (slugOut # NotRun /\ arg # <<>>) =>
        /\ slugOut \in DOMAIN files
        /\ files[slugOut].parses
        /\ files[slugOut].fm.title = Str(arg)
        /\ SchemaParse(files[slugOut].fm).ok

-----------------------------------------------------------------------------
(* The normalization rule as documented: lowercase, every character        *)
(* outside a-z and 0-9 becomes a hyphen, runs of hyphens collapse, leading  *)
(* and trailing hyphens go.                                                 *)

RuleReplace(s) ==
    [i \in DOMAIN s |-> IF s[i] \in Lower \cup Digit THEN s[i] ELSE "-"]

RuleTrim(s) ==
    Keep(s, {i \in DOMAIN s : ~(s[i] = "-" /\ (i = 1 \/ i = Len(s)))})

NormalizeRule(s) == RuleTrim(SedCollapse(RuleReplace(Tr(s))))

WellFormedSlug(s) ==
    /\ \A i \in DOMAIN s : s[i] \in Lower \cup Digit \cup {"-"}
    /\ \A i \in DOMAIN s : i > 1 => ~(s[i] = "-" /\ s[i - 1] = "-")
    /\ s # <<>> => s[1] # "-" /\ s[Len(s)] # "-"

SlugRan == slugOut # NotRun /\ arg # <<>>

\* C8: for every title the slug computed by `blog new-post` is the title
\* normalized by the documented rule (lowercased, characters outside a-z0-9
\* replaced by '-', runs collapsed, ends trimmed); it holds only a-z, 0-9
\* and '-', has no two adjacent hyphens and no hyphen at either end.
C8_SlugFollowsRule ==
    SlugRan => slugOut = NormalizeRule(arg) /\ WellFormedSlug(slugOut)

-----------------------------------------------------------------------------
(* The schema under test: one raw frontmatter mapping per behaviour *)

RawFrontmatters ==
    [title       : {Undef, Str(<<>>), Str(<<"e">>), Num(1)},
     description : {Undef, Str(<<>>), Str(<<"e">>), Num(1)},
     pubDate     : {Undef, Str(<<"1">>), Num(1)} \cup {Date(d) : d \in 1..MaxDay},
     updatedDate : {Undef, Str(<<"1">>)} \cup {Date(d) : d \in 1..MaxDay},
     heroImage   : {Undef, Str(<<"e">>), Num(1)},
     tags        : {Undef, Arr(<<>>), Arr(<<"e">>), BadArr(<<>>, 1), Str(<<"e">>)}]

InitSchema ==
    /\ raw \in RawFrontmatters
    /\ parsed = NotParsed
    /\ PipelineIdle /\ SlugIdle /\ QueryIdle /\ ConfigIdle

AcceptEntry ==
    /\ parsed = NotParsed
    /\ SchemaParse(raw).ok
    /\ parsed' = SchemaParse(raw)
    /\ UNCHANGED <<raw, pipelineVars, slugVars, queryVars, configVars>>

RejectEntry ==
    /\ parsed = NotParsed
    /\ ~SchemaParse(raw).ok
    /\ parsed' = SchemaParse(raw)
    /\ UNCHANGED <<raw, pipelineVars, slugVars, queryVars, configVars>>

NextSchema == AcceptEntry \/ RejectEntry

SpecSchema == InitSchema /\ [][NextSchema]_vars

Required == {"title", "description", "pubDate"}

RequiredType == [title |-> "string", description |-> "string", pubDate |-> "date"]

\* C5: an entry whose frontmatter lacks title, description or pubDate, or
\* gives it a value of the wrong type, is rejected and the validation error
\* names that field.
C5_RejectNamesField ==
    parsed # NotParsed =>
        \A f \in Required :
            raw[f].t # RequiredType[f] => ~parsed.ok /\ f \in parsed.issues

C5_Witness ==
    /\ parsed # NotParsed
    /\ raw.pubDate = Undef
    /\ raw.title.t = "string" /\ raw.description.t = "string"
    /\ ~parsed.ok
    /\ parsed.issues = {"pubDate"}

-----------------------------------------------------------------------------
(* Properties of the build                                                 *)

Built == pc = "done"

DetailRoutes == {r \in written : r.kind = "detail"}
ListingRoutes == {r \in written : r.kind = "listing"}
SortedViews == {r \in written : r.kind \in {"listing", "home"}}

RoutesOf(e) == {r \in DetailRoutes : r.path = BlogPath(e.slug)}

\* C1: getStaticPaths yields exactly one detail route per entry of the
\* collection: as many routes as entries, none skipped, none doubled.
C1_OneRoutePerEntry ==
    /\ pc = "detail" =>
          Len(paths) + Cardinality(DetailRoutes) = Len(store)
    /\ Built =>
          /\ Cardinality(DetailRoutes) = Len(store)
          /\ \A i \in DOMAIN store : Cardinality(RoutesOf(store[i])) = 1

C1_Witness ==
    /\ Built
    /\ Len(store) = MaxFiles
    /\ Cardinality(DetailRoutes) = MaxFiles

\* C2: the detail route of an entry has the path /blog/<slug>/ and carries
\* the data and the body of that entry, which are those of its file.
C2_RouteBoundToOwnEntry ==
    Built =>
        \A i \in DOMAIN store :
            /\ RoutesOf(store[i]) # {}
            /\ \A r \in RoutesOf(store[i]) :
                  /\ r.id = store[i].id
                  /\ r.data = files[store[i].id].fm
                  /\ r.body = files[store[i].id].body

C2_Witness ==
    /\ Built
    /\ \E i, j \in DOMAIN store :
          /\ store[i].data # store[j].data
          /\ store[i].body # store[j].body
          /\ RoutesOf(store[i]) # {} /\ RoutesOf(store[j]) # {}

\* C3: the listing (and the list of the home page) is a permutation of the
\* collection in publish date descending order: every entry once, a later
\* date before an earlier one.
C3_ListingSortedPermutation ==
    \A r \in SortedViews :
        /\ Len(r.items) = Len(store)
        /\ \A i \in DOMAIN store :
              Cardinality({k \in DOMAIN r.items :
                              r.items[k].href = BlogPath(store[i].slug)}) = 1
        /\ \A i, j \in DOMAIN store :
              store[i].data.pubDate.n > store[j].data.pubDate.n =>
                  \E k, l \in DOMAIN r.items :
                      /\ k < l
                      /\ r.items[k].href = BlogPath(store[i].slug)
                      /\ r.items[l].href = BlogPath(store[j].slug)

C3_Witness ==
    /\ \E r \in ListingRoutes : Len(r.items) = MaxFiles
    /\ \E i, j \in DOMAIN store :
          i < j /\ store[i].data.pubDate.n < store[j].data.pubDate.n

\* C4: with no entry the build does not fail, the listing shows the
\* empty-state message and no post list, and there is no detail route.
C4_EmptyCollection ==
    Discovered(files) = {} =>
        /\ pc # "failed"
        /\ Built =>
              /\ ListingRoutes # {}
              /\ \A r \in ListingRoutes : r.emptyState /\ r.items = <<>>
              /\ DetailRoutes = {}

C4_Witness ==
    /\ Built
    /\ Discovered(files) = {}
    /\ \E r \in ListingRoutes : r.emptyState

HasInvalidEntry ==
    \E n \in Discovered(files) :
        files[n].parses /\ ~SchemaParse(files[n].fm).ok

\* C6: when an entry of the input fails the schema the build fails and has
\* written no route; every entry a page receives has passed the schema.
C6_InvalidEntryFailsBuild ==
    /\ pc # "edit" /\ HasInvalidEntry =>
          pc \in {"load", "failed"} /\ written = {}
    /\ pc \notin {"edit", "load"} =>
          /\ \A i \in DOMAIN store : SchemaParse(store[i].data).ok
          /\ \A i \in DOMAIN paths : SchemaParse(paths[i].props.data).ok
          /\ \A r \in DetailRoutes : SchemaParse(r.data).ok

C6_Witness ==
    /\ pc = "failed"
    /\ error.kind = "ValidationError"
    /\ written = {}
    /\ \E n \in Discovered(files) : SchemaParse(files[n].fm).ok

\* C7: two inputs that normalize to the same slug make the build fail with
\* a collision error naming both files; neither replaces the other.
C7_CollisionFailsBuild ==
    /\ [](Built =>
            \A a, b \in Discovered(files) :
                a # b => NormalizeRule(a) # NormalizeRule(b))
    /\ [](error.kind = "DuplicateSlug" => Cardinality(error.files) = 2)
    /\ [][\A n \in DOMAIN files :
            n \in DOMAIN files' /\ files'[n] = files[n]]_vars

C10_RebuildIdentical ==
    Built /\ prevOut.valid => written = prevOut.out

-----------------------------------------------------------------------------
(* The collection queries under test: one collection per behaviour, queried *)
(* by the listing page or by the home page                                  *)

\* index.astro keeps the first three of the sorted posts
LatestCount == 3

QueryName(k) == <<"e">> \o [i \in 1..(k - 1) |-> "1"]

QueryEntry(k, d) ==
    [id   |-> QueryName(k),
     slug |-> GithubSlug(QueryName(k)),
     data |-> [title |-> Str(QueryName(k)), description |-> Str(<<>>),
               pubDate |-> Date(d), updatedDate |-> Undef,
               heroImage |-> Undef, tags |-> Undef],
     body |-> ManualBody]

\* collections of up to MaxPosts entries with any publish dates, as
\* getCollection returns them: names ascending or descending along the array
QueryCollections ==
    UNION {{[i \in 1..n |-> QueryEntry(IF ascending THEN i ELSE n + 1 - i, d[i])] :
                ascending \in BOOLEAN, d \in [1..n -> 1..MaxDay]} :
           n \in 0..MaxPosts}

CollectionAliased(coll, sortedArray) == sortedArray

\* getCollection hands every caller an array of its own: sorting that array
\* in place leaves the collection as it was
CollectionAfterSort(coll, sortedArray) == coll

SliceFromSecond(sortedArray) ==
    SubSeq(sortedArray, 2, IF Len(sortedArray) < LatestCount + 1
                           THEN Len(sortedArray) ELSE LatestCount + 1)

\* .slice(0, 3)
Slice(sortedArray) ==
    SubSeq(sortedArray, 1, IF Len(sortedArray) < LatestCount
                           THEN Len(sortedArray) ELSE LatestCount)

LatestSliceFirst(array) == SortPosts(Slice(array))

\* posts.sort(...).slice(0, 3)
Latest(array) == Slice(SortPosts(array))

InitQuery ==
    /\ store \in QueryCollections
    /\ postsArray = <<>> /\ view = NoView
    /\ files = NoFiles /\ today = 1 /\ pc = "edit"
    /\ paths = <<>> /\ written = {} /\ error = NoError
    /\ prevOut = NoPrev /\ exitStatus = 0
    /\ SlugIdle /\ SchemaIdle /\ ConfigIdle

\* blog/index.astro: posts = await getCollection('blog');
\* sortedPosts = posts.sort(...), the same array sorted in place
QueryListing ==
    /\ view = NoView
    /\ postsArray' = SortPosts(GetCollection)
    /\ view' = [kind |-> "listing", items |-> SortPosts(GetCollection)]
    /\ store' = CollectionAfterSort(store, SortPosts(GetCollection))
    /\ UNCHANGED <<files, today, pc, paths, written, error, prevOut,
                   exitStatus, slugVars, schemaVars, configVars>>

\* index.astro: sortedPosts = posts.sort(...).slice(0, 3)
QueryHome ==
    /\ view = NoView
    /\ postsArray' = SortPosts(GetCollection)
    /\ view' = [kind |-> "home", items |-> Latest(GetCollection)]
    /\ store' = CollectionAfterSort(store, SortPosts(GetCollection))
    /\ UNCHANGED <<files, today, pc, paths, written, error, prevOut,
                   exitStatus, slugVars, schemaVars, configVars>>

NextQuery == QueryListing \/ QueryHome

SpecQuery == InitQuery /\ [][NextQuery]_vars

-----------------------------------------------------------------------------
(* Properties of the queries                                               *)

CharRank(c) ==
    CASE c = NL -> 10 [] c = " " -> 32 [] c = "-" -> 45
      [] c = "1" -> 49 [] c = "E" -> 69 [] c = "e" -> 101 [] OTHER -> 127

\* a comes strictly before b in ascending string order
RECURSIVE LexLess(_, _)
LexLess(a, b) ==
    IF b = <<>> THEN FALSE
    ELSE IF a = <<>> THEN TRUE
    ELSE IF CharRank(Head(a)) # CharRank(Head(b))
         THEN CharRank(Head(a)) < CharRank(Head(b))
    ELSE LexLess(Tail(a), Tail(b))

Queried == view # NoView

Min(a, b) == IF a < b THEN a ELSE b

\* C11: in a sorted view two entries with the same publish date stand in
\* ascending order of their slugs, whatever order the collection returned
\* them in.
C11_TiesBySlugAscending ==
    Queried =>
        \A k, l \in DOMAIN view.items :
            (k < l /\ view.items[k].data.pubDate = view.items[l].data.pubDate)
                => LexLess(view.items[k].slug, view.items[l].slug)

-----------------------------------------------------------------------------
(* Properties of the schema: empty strings, defaults, date order           *)

SchemaRan == parsed # NotParsed

\* C14: an entry whose title is the empty string is rejected, with the
\* title named in the error; an empty description raises no issue.
C14_EmptyTitleRejected ==
    SchemaRan =>
        /\ raw.title = Str(<<>>) => ~parsed.ok /\ "title" \in parsed.issues
        /\ raw.description = Str(<<>>) => "description" \notin parsed.issues

\* a frontmatter that gives the three required fields and nothing else
OnlyRequired ==
    /\ \A f \in Required : raw[f].t = RequiredType[f]
    /\ \A f \in Fields \ Required : raw[f] = Undef

\* C15 as stated: an entry with only title, description and pubDate is
\* accepted, and in the typed entry the update date and the hero image are
\* absent and the tags are the empty set.
C15_DefaultTagsEmptySet ==
    (SchemaRan /\ OnlyRequired) =>
        /\ parsed.ok
        /\ parsed.data.updatedDate = Undef
        /\ parsed.data.heroImage = Undef
        /\ parsed.data.tags = Arr(<<>>)

\* C15 amended: an entry with only title, description and pubDate is
\* accepted, and in the typed entry the update date, the hero image and the
\* tags are all absent.
C15_OptionalFieldsAbsent ==
    (SchemaRan /\ OnlyRequired) =>
        /\ parsed.ok
        /\ \A f \in Required : parsed.data[f] = raw[f]
        /\ parsed.data.updatedDate = Undef
        /\ parsed.data.heroImage = Undef
        /\ parsed.data.tags = Undef

C15_Witness ==
    /\ SchemaRan /\ OnlyRequired /\ parsed.ok
    /\ raw.title = Str(<<"e">>)
    /\ parsed.data.tags = Undef

\* C17: every accepted entry that has an update date has one that is not
\* earlier than its publish date; an entry whose update date is earlier
\* than its publish date is not accepted.
C17_UpdatedNotBeforePublished ==
    (SchemaRan /\ parsed.ok /\ parsed.data.updatedDate # Undef) =>
        parsed.data.updatedDate.n >= parsed.data.pubDate.n

-----------------------------------------------------------------------------
(* Properties of the build: slugs, layout, failures, termination           *)

C18_DetailLayout ==
    \A r \in DetailRoutes :
        \E i \in DOMAIN store :
            LET d == store[i].data
            IN  /\ r.path = BlogPath(store[i].slug)
                /\ r.layout.time = d.pubDate.n
                /\ r.layout.showUpdated <=> d.updatedDate # Undef
                /\ r.layout.showUpdated => r.layout.updated = d.updatedDate.n
                /\ r.layout.showTags <=> (d.tags # Undef /\ d.tags.s # <<>>)
                /\ r.layout.showTags => r.layout.tags = d.tags.s

C18_Witness ==
    /\ Built
    /\ \E r \in DetailRoutes : r.layout.showUpdated /\ r.layout.showTags
    /\ \E r \in DetailRoutes :
          r.data.tags = Arr(<<>>) /\ ~r.layout.showTags /\ ~r.layout.showUpdated
    /\ \E r \in DetailRoutes : r.data.tags = Undef /\ ~r.layout.showTags

Unparseable == {n \in Discovered(files) : ~files[n].parses}

Invalid == {n \in Discovered(files) : files[n].parses /\ ~SchemaParse(files[n].fm).ok}

Colliding ==
    {n \in Discovered(files) :
        \E m \in Discovered(files) : m # n /\ GithubSlug(m) = GithubSlug(n)}

Failing == Unparseable \cup Invalid \cup Colliding

Building == pc \in {"load", "home", "listing", "paths", "detail"}

Terminated == pc \in {"done", "failed"}

Stage(p) ==
    CASE p = "load" -> 1 [] p = "home" -> 2 [] p = "listing" -> 3
      [] p = "paths" -> 4 [] p = "detail" -> 5 [] OTHER -> 6

\* C20: a build that has started ends, completed or failed; while it runs
\* it only moves forward through its stages, never back to an earlier one,
\* and once ended it does not turn from completed to failed or back.
C20_BuildTerminates ==
    /\ Building ~> Terminated
    /\ [][Building =>
            /\ pc' \in {"load", "home", "listing", "paths", "detail", "done", "failed"}
            /\ Stage(pc') >= Stage(pc)
            /\ (pc' = pc => Len(paths') < Len(paths))]_vars
    /\ [][Terminated => pc' \in {pc, "edit", "load"}]_vars

C20_Witness ==
    /\ Built
    /\ exitStatus = 0
    /\ Cardinality(written) = 2 + MaxFiles
    /\ prevOut.valid

-----------------------------------------------------------------------------
(* Further properties of `blog new-post`                                   *)

\* C22: no step changes or removes a post file that exists: a run of
\* `blog new-post` whose slug is that of an existing post leaves it alone.
C22_NeverOverwrites ==
    [][\A n \in DOMAIN files : n \in DOMAIN files' /\ files'[n] = files[n]]_vars

\* C24: the normalization is idempotent: applied to a slug it has produced
\* it gives that slug again.
C24_SlugIdempotent ==
    SlugRan => NewPostSlug(slugOut) = slugOut

C24_Witness ==
    /\ SlugRan
    /\ slugOut # arg
    /\ Len(slugOut) = 3
    /\ slugOut[2] = "-"
    /\ NewPostSlug(slugOut) = slugOut

-----------------------------------------------------------------------------
(* The pages of one build, for each configuration of the site: the         *)
(* collection has been loaded and the pages are rendered                   *)

SiteContents ==
    {c \in ManualFiles : c.parses /\ SchemaParse(c.fm).ok}
        \cup {NewPostFile(<<"e">>, 1)}

SiteFiles == UNION {[N -> SiteContents] : N \in SUBSET ManualNames}

InitSite ==
    /\ config \in Configs
    /\ files \in SiteFiles
    /\ \E disc \in Perms(Discovered(files)) : store = Load(files, disc).entries
    /\ pc = "home" /\ today = 1
    /\ paths = <<>> /\ written = {} /\ error = NoError
    /\ prevOut = NoPrev /\ exitStatus = 0
    /\ SlugIdle /\ SchemaIdle /\ QueryIdle

NextSite ==
    \/ RenderHome
    \/ RenderListing
    \/ CallGetStaticPaths
    \/ RenderDetail
    \/ FinishBuild

SpecSite == InitSite /\ [][NextSite]_vars

\* C26: with base '/' and with base '/blog', every link the home page and
\* the listing page emit for an entry is the URL path at which the detail
\* route of that entry is served.
C26_LinksReachDetailRoutes ==
    Built =>
        \A r \in SortedViews :
            \A i \in DOMAIN r.items :
                \E d \in DetailRoutes : d.url = r.items[i].href

\* C28: the listing page shows a tag container for an entry exactly when
\* the page of that entry shows one, that is exactly when the entry has at
\* least one tag.
C28_ListingTagsLikeDetail ==
    Built =>
        \A r \in ListingRoutes :
            \A i \in DOMAIN r.items :
                \A d \in DetailRoutes :
                    d.path = r.items[i].href =>
                        /\ r.items[i].showTags <=> d.layout.showTags
                        /\ r.items[i].showTags <=>
                              (d.data.tags # Undef /\ d.data.tags.s # <<>>)

DefaultDescription ==
    IF config.baseLayout = "or" THEN <<"Blog">>
    ELSE <<"My awesome blog powered by Astro">>

\* the description a page hands to the base layout
GivenDescription(r) == IF r.kind = "detail" THEN r.data.description ELSE Undef

\* C29: every route is one document with its body in one slot, and its
\* description metadata is the description given when there is one and it
\* is not empty, and the default description of the layout otherwise.
C29_ShellAndDescription ==
    \A r \in written :
        /\ r.shell.documents = 1
        /\ r.shell.slots = 1
        /\ r.shell.description =
              IF GivenDescription(r) # Undef /\ GivenDescription(r).s # <<>>
              THEN GivenDescription(r).s
              ELSE DefaultDescription

-----------------------------------------------------------------------------
(* The home page against the listing page                                  *)

\* the entries of the listing page, in its order: blog/index.astro sorts the
\* array it gets from the same collection
ListingOrder == SortPosts(GetCollection)

====
